---- MODULE Spec2Model ----
(***************************************************************************)
(* A model of pptrace: the debug-information tree builder                  *)
(* (dwarfutil.Tree), the type-name resolver (inspect.findType), the        *)
(* separate debug file locator (dwarfutil.FindDwarf) and the uprobe target *)
(* compiler and tracer (trace.traceTarget.Compile, trace.traceAction), and *)
(* the function-argument listing (inspect.funcArgsAction).                 *)
(*                                                                         *)
(* Every component has its own specification over the shared variables;    *)
(* the variables of the other components stay at their idle values.        *)
(***************************************************************************)
EXTENDS Integers, Sequences, FiniteSets, TLC

VARIABLES
    \* ---- dwarfutil.Tree ----
    recs,        \* the records r.Next() has returned so far, in order
    lastOff,     \* offset of the last non-terminator record the reader returned
    first,       \* Tree's local `first`
    stack,       \* Tree's local `stack`: a sequence of node ids
    root,        \* Tree's local `root`: a node id, or NoNode
    nodes,       \* the heap of Nodes: node id -> [Entry, Children]
    OffsetMap,   \* root.OffsetMap: offset -> node id
    treePc,      \* "idle" | "loop" | "returned" | "panic"
    \* ---- inspect.findType ----
    ftEntry,     \* the `entry` argument of the innermost findType call
    ftPrefix,    \* the modifiers the enclosing calls prepend to its result
    ftDepth,     \* number of nested findType calls
    ftResult,    \* what the outermost call returned
    ftPc,        \* "idle" | "call" | "done" | "panic"
    \* ---- dwarfutil.FindDwarf ----
    fdPath,      \* the `path` argument
    fdInput,     \* the input file: [Kind, Note, Link]
    fs,          \* the other files on disk: path -> kind
    opened,      \* the paths elf.Open has been called on, in order
    pathsToCheck,\* FindDwarf's local `pathsToCheck`
    fdNext,      \* index of the next candidate the final loop probes
    fdResult,    \* the returned path ("" with an error)
    fdPc,        \* "idle" | "start" | "probe" | "done" | "openerr" | "nodebug"
    \* ---- trace.traceTarget.Compile ----
    exes,        \* the files on disk: binary path -> what elf.Open finds
    target,      \* the traceTarget Compile is called on
    compileIdx,  \* the `idx` argument
    compileRes,  \* "none" | "ok" | "openerr" | "notfound" | "fatal"
    compilePc,   \* "idle" | "call" | "returned"
    \* ---- trace.traceAction ----
    targets,     \* traceAction's `targets`
    dryRun,      \* the --dry flag
    taPc,        \* where the main goroutine is
    taI,         \* index of the target the current loop is at
    compiled,    \* the outcomes of the Compile calls made so far
    defers,      \* the deferred calls, last deferred last
    calls,       \* the calls made on the tracefs instance and the pipe
    taErr,       \* the error traceAction returns
    notified,    \* signal.Notify has registered sigChan
    sigChan,     \* number of signals buffered in sigChan (capacity 1)
    stopClosed,  \* close(stop) has run
    sigG,        \* the goroutine of line 137: "none" | "waiting" | "done"
    closerG,     \* the goroutine of line 151: "none" | "waiting" | "done"
    pipe,        \* the trace pipe: "none" | "open" | "closed"
    signals,     \* number of signals delivered to the process
    \* ---- inspect.funcArgsAction ----
    allFlag,     \* the --all flag
    exactMatch,  \* the --exact flag
    faArgs,      \* the positional arguments after <file>: <<>> or <<filter>>
    matchFuncName, \* funcArgsAction's local `matchFuncName`
    pkgNodes,    \* the children of the compile units of the tree, in order
    faI,         \* index of the pkgNode the loop is at
    emitted,     \* indexes of the pkgNodes whose function line was printed
    faPc         \* "idle" | "start" | "loop" | "returned" | "fatal"

treeVars == <<recs, lastOff, first, stack, root, nodes, OffsetMap, treePc>>

typeVars == <<ftEntry, ftPrefix, ftDepth, ftResult, ftPc>>

locVars == <<fdPath, fdInput, fs, opened, pathsToCheck, fdNext, fdResult, fdPc>>

compVars == <<exes, target, compileIdx, compileRes, compilePc>>

traceVars ==
    <<targets, dryRun, taPc, taI, compiled, defers, calls, taErr, notified,
      sigChan, stopClosed, sigG, closerG, pipe, signals>>

argsVars ==
    <<allFlag, exactMatch, faArgs, matchFuncName, pkgNodes, faI, emitted, faPc>>

vars == <<treeVars, typeVars, locVars, compVars, traceVars, argsVars>>

\* What each component leaves alone.
notTree == <<typeVars, locVars, compVars, traceVars, argsVars>>
notType == <<treeVars, locVars, compVars, traceVars, argsVars>>
notLoc == <<treeVars, typeVars, compVars, traceVars, argsVars>>
notCompile == <<treeVars, typeVars, locVars, traceVars, argsVars>>
notTrace == <<treeVars, typeVars, locVars, compVars, argsVars>>
notArgs == <<treeVars, typeVars, locVars, compVars, traceVars>>

Nil == "nil"

\* The nil *Node (node ids are naturals).
NoNode == 0 - 1

\* ------------------------------------------------------------------------
\* Generic helpers
\* ------------------------------------------------------------------------

Last(s) == s[Len(s)]

Front(s) == SubSeq(s, 1, Len(s) - 1)

Range(s) == {s[i] : i \in 1..Len(s)}

\* The function f extended or overwritten at key k (a Go map assignment).
MapPut(f, k, v) == [x \in DOMAIN f \cup {k} |-> IF x = k THEN v ELSE f[x]]

EmptyMap == [x \in {} |-> Nil]

\* ------------------------------------------------------------------------
\* Idle values of the components a specification does not run
\* ------------------------------------------------------------------------

TypeIdle ==
    /\ ftEntry = Nil
    /\ ftPrefix = <<>>
    /\ ftDepth = 0
    /\ ftResult = <<>>
    /\ ftPc = "idle"

LocIdle ==
    /\ fdPath = <<>>
    /\ fdInput = Nil
    /\ fs = EmptyMap
    /\ opened = <<>>
    /\ pathsToCheck = <<>>
    /\ fdNext = 0
    /\ fdResult = <<>>
    /\ fdPc = "idle"

CompIdle ==
    /\ exes = EmptyMap
    /\ target = Nil
    /\ compileIdx = 0
    /\ compileRes = "none"
    /\ compilePc = "idle"

ArgsIdle ==
    /\ allFlag = FALSE
    /\ exactMatch = FALSE
    /\ faArgs = <<>>
    /\ matchFuncName = <<>>
    /\ pkgNodes = <<>>
    /\ faI = 0
    /\ emitted = {}
    /\ faPc = "idle"

NoError == [kind |-> "none", idx |-> 0]

TraceIdle ==
    /\ targets = <<>>
    /\ dryRun = FALSE
    /\ taPc = "idle"
    /\ taI = 0
    /\ compiled = <<>>
    /\ defers = <<>>
    /\ calls = <<>>
    /\ taErr = NoError
    /\ notified = FALSE
    /\ sigChan = 0
    /\ stopClosed = FALSE
    /\ sigG = "none"
    /\ closerG = "none"
    /\ pipe = "none"
    /\ signals = 0

\* ------------------------------------------------------------------------
\* dwarfutil.Tree
\* ------------------------------------------------------------------------

\* Most records one reader returns before it reports the end of the section.
MaxRecords == 5

\* Largest distance between the offsets of two consecutive records.
MaxGap == 1

\* dwarf.Tag and dwarf.Attr values the code names.
TagFormalParameter == 5
TagPointerType == 15
TagStructType == 19
TagTypedef == 22
TagSubprogram == 46
AttrName == 3
AttrType == 73

\* Tags of the records the reader returns.
TreeTags == {TagSubprogram, TagFormalParameter}

\* debug/dwarf returns &Entry{} for the null entry that ends a sibling list.
Terminator == [Offset |-> 0, Tag |-> 0, Children |-> FALSE, Field |-> <<>>]

\* The test of Tree for the record that ends the parent's children.
IsTerminator(entry) ==
    entry.Children = FALSE /\ entry.Offset = 0 /\ entry.Tag = 0

\* The records r.Next() can return next: the null entry, or a record at a
\* fresh offset beyond every earlier one.
NextEntries ==
    {Terminator} \cup
    {[Offset |-> lastOff + d, Tag |-> t, Children |-> c, Field |-> <<>>] :
        d \in 1..MaxGap, t \in TreeTags, c \in BOOLEAN}

\* The id of the Node allocated for the k-th record; the root Node is 0.
RootId == 0

NewNode(entry) == [Entry |-> entry, Children |-> <<>>]

TreeInit ==
    /\ recs = <<>>
    /\ lastOff = 0
    /\ first = TRUE
    /\ stack = <<>>
    /\ root = NoNode
    /\ nodes = EmptyMap
    /\ OffsetMap = EmptyMap
    /\ treePc = "loop"

TreeIdle ==
    /\ recs = <<>>
    /\ lastOff = 0
    /\ first = TRUE
    /\ stack = <<>>
    /\ root = NoNode
    /\ nodes = EmptyMap
    /\ OffsetMap = EmptyMap
    /\ treePc = "idle"

\* The stack once the first record has seeded it with the root.
SeededStack == IF first THEN <<RootId>> ELSE stack

\* The heap once the first record has allocated the root.
SeededNodes(entry) == IF first THEN MapPut(nodes, RootId, NewNode(entry)) ELSE nodes

\* A slip that loses the append of the new node to its parent.
AppendChildLost(heap, parent, id) == heap

\* The parent's Children after parent.Children = append(parent.Children, node).
AppendChild(heap, parent, id) ==
    [heap EXCEPT ![parent].Children = Append(@, id)]

\* A slip that indexes the parent on top of the stack instead of the node.
IndexedNodeParent(id, stk) == IF stk = <<>> THEN id ELSE Last(stk)

\* What root.OffsetMap[entry.Offset] = node stores.
IndexedNode(id, stk) == id

\* A slip that pushes every node, whether or not it owns children.
PushAlways(stk, entry, id) == Append(stk, id)

\* if entry.Children { stack = append(stack, node) }
PushIfChildren(stk, entry, id) == IF entry.Children THEN Append(stk, id) ELSE stk

\* One iteration of Tree's loop on the record `entry`.
TreeStep(entry) ==
    LET id   == Len(recs) + 1
        stk  == SeededStack
        heap == MapPut(SeededNodes(entry), id, NewNode(entry))
    IN  /\ treePc = "loop"
        /\ Len(recs) < MaxRecords
        /\ recs' = Append(recs, entry)
        /\ lastOff' = IF entry.Offset > lastOff THEN entry.Offset ELSE lastOff
        /\ first' = FALSE
        /\ root' = IF first THEN RootId ELSE root
        /\ OffsetMap' = MapPut(OffsetMap, entry.Offset, IndexedNode(id, stk))
        /\ IF stk = <<>>
             THEN \* stack[:len(stack)-1] and stack[len(stack)-1] both panic
                  /\ treePc' = "panic"
                  /\ nodes' = heap
                  /\ stack' = stk
             ELSE IF IsTerminator(entry)
             THEN /\ stack' = Front(stk)
                  /\ nodes' = heap
                  /\ treePc' = "loop"
             ELSE /\ nodes' = AppendChild(heap, Last(stk), id)
                  /\ stack' = PushIfChildren(stk, entry, id)
                  /\ treePc' = "loop"

TreeNext ==
    /\ \E entry \in NextEntries : TreeStep(entry)
    /\ UNCHANGED notTree

\* r.Next() reports the end of the section: Tree returns root.
TreeEOF ==
    /\ treePc = "loop"
    /\ treePc' = "returned"
    /\ UNCHANGED <<recs, lastOff, first, stack, root, nodes, OffsetMap>>
    /\ UNCHANGED notTree

NextTree == TreeNext \/ TreeEOF

InitTree ==
    TreeInit /\ TypeIdle /\ LocIdle /\ CompIdle /\ TraceIdle /\ ArgsIdle

SpecTree == InitTree /\ [][NextTree]_vars

\* ------------------------------------------------------------------------
\* Properties of dwarfutil.Tree
\* ------------------------------------------------------------------------

\* Number of records of s that are not the terminator.
NonTerm(s) == Cardinality({i \in 1..Len(s) : ~IsTerminator(s[i])})

RECURSIVE SumOver(_, _, _)
SumOver(Op(_), s, k) == IF k = 0 THEN 0 ELSE Op(s[k]) + SumOver(Op, s, k - 1)

\* Number of Nodes reachable from node id through Children, id included.
RECURSIVE TreeSize(_)
TreeSize(id) == 1 + SumOver(TreeSize, nodes[id].Children, Len(nodes[id].Children))

\* Number of Nodes reachable from node id whose Entry is the record e.
RECURSIVE Occurrences(_, _)
Occurrences(id, e) ==
    LET Sub(c) == Occurrences(c, e)
    IN  (IF nodes[id].Entry = e THEN 1 ELSE 0)
        + SumOver(Sub, nodes[id].Children, Len(nodes[id].Children))

\* The children-owning records still open after the first k records of s, by
\* the stream's own pre-order nesting: a record that owns children opens a
\* level, a terminator closes the innermost open one.
RECURSIVE OpenAfter(_, _)
OpenAfter(s, k) ==
    IF k = 0 THEN <<>>
    ELSE LET prev == OpenAfter(s, k - 1)
         IN  IF IsTerminator(s[k])
               THEN IF prev = <<>> THEN <<>> ELSE Front(prev)
               ELSE IF s[k].Children THEN Append(prev, k) ELSE prev

\* Index of the record enclosing the i-th record of s; 0 when it is top-level.
Enclosing(s, i) ==
    LET open == OpenAfter(s, i - 1) IN IF open = <<>> THEN 0 ELSE Last(open)

\* Every terminator of s closes an open record and none is left open.
Balanced(s) ==
    /\ \A k \in 1..Len(s) : IsTerminator(s[k]) => OpenAfter(s, k - 1) # <<>>
    /\ OpenAfter(s, Len(s)) = <<>>

\* The Nodes that hold node id in their Children.
Parents(id) == {n \in DOMAIN nodes : id \in Range(nodes[n].Children)}

\* Children lists keep the order of the stream (node ids are stream positions).
ChildrenInStreamOrder ==
    \A n \in DOMAIN nodes :
        \A a, b \in 1..Len(nodes[n].Children) :
            a < b => nodes[n].Children[a] < nodes[n].Children[b]

NonTermIdx == {i \in 1..Len(recs) : ~IsTerminator(recs[i])}

\* C4 as stated: the returned tree has as many Nodes (root included) as the
\* stream has non-terminator records, each record held by exactly one Node.
\* (Stated here for the balanced streams only, which are among "every
\* record stream".)
C4_NodesEqualRecords ==
    (treePc = "returned" /\ root # NoNode /\ Balanced(recs)) =>
        /\ TreeSize(root) = NonTerm(recs)
        /\ \A i \in NonTermIdx : Occurrences(root, recs[i]) = 1

\* C4 amended: whenever Tree has a tree (it has read a record and has not
\* panicked), the tree has one Node more than the stream has non-terminator
\* records: the root is an extra Node holding a copy of the first record,
\* which, unless it is a terminator, is also the root's first child; every
\* other non-terminator record is held by exactly one Node.
C4_NodesEqualRecordsPlusRoot ==
    (treePc \in {"loop", "returned"} /\ root # NoNode) =>
        /\ TreeSize(root) = NonTerm(recs) + 1
        /\ \A i \in NonTermIdx :
              Occurrences(root, recs[i]) = IF i = 1 THEN 2 ELSE 1

C4_Witness ==
    /\ treePc = "returned"
    /\ NonTerm(recs) >= 3
    /\ Len(recs) > NonTerm(recs)
    /\ Len(stack) = 1

\* C5 as stated: in a balanced stream every record is a child of the Node of
\* its enclosing record and of no other Node, siblings in stream order.
C5_ChildOfEnclosingOnly ==
    (treePc = "returned" /\ Balanced(recs)) =>
        /\ ChildrenInStreamOrder
        /\ \A i \in NonTermIdx :
              /\ Enclosing(recs, i) # 0
              /\ Parents(i) = {Enclosing(recs, i)}

\* C5 amended: a record with an enclosing record is a child of exactly the
\* Node made for that record; a record with no enclosing record (a top-level
\* record, the first one included) is a child of the root Node; every
\* Children list is in stream order.
C5_SiblingsInOrder ==
    (treePc = "returned" /\ Balanced(recs)) =>
        /\ ChildrenInStreamOrder
        /\ \A i \in NonTermIdx :
              Parents(i) = IF Enclosing(recs, i) = 0 THEN {RootId}
                           ELSE {Enclosing(recs, i)}

C5_Witness ==
    /\ treePc = "returned"
    /\ Balanced(recs)
    /\ \E i, j \in NonTermIdx :
          i < j /\ Enclosing(recs, i) # 0 /\ Enclosing(recs, i) = Enclosing(recs, j)
    /\ \E i, j \in NonTermIdx :
          i < j /\ Enclosing(recs, i) = 0 /\ Enclosing(recs, j) = 0

\* C6: after any prefix of any stream, every key of the root's OffsetMap maps
\* to a Node whose Entry.Offset is that key.
C6_IndexConsistent ==
    \A k \in DOMAIN OffsetMap : nodes[OffsetMap[k]].Entry.Offset = k

C6_Witness ==
    /\ treePc = "loop"
    /\ Cardinality(DOMAIN OffsetMap) >= 3
    /\ 0 \in DOMAIN OffsetMap
    /\ Len(stack) >= 2

\* ------------------------------------------------------------------------
\* inspect.findType
\* ------------------------------------------------------------------------

\* Most type records on the reference path that starts at the parameter.
MaxChain == 4

\* Most nested findType calls whose depth and modifiers are recorded; deeper
\* calls, which only a cyclic path makes, go on with both held at this bound.
MaxDepth == 6

\* Strings are sequences of characters.
StructModifier == <<"s", "t", "r", "u", "c", "t", " ">>
PointerModifier == <<"*">>
TypeNames == {<<"i", "n", "t">>, <<"*", "i", "n", "t">>}
TypeTags == {TagPointerType, TagStructType, TagTypedef}

\* strings.HasPrefix(s, "*")
HasStarPrefix(s) == Len(s) > 0 /\ s[1] = "*"

\* strings.Replace(s, "*", "", 1): s without its first "*".
RECURSIVE RemoveFirstStar(_)
RemoveFirstStar(s) ==
    IF s = <<>> THEN <<>>
    ELSE IF s[1] = "*" THEN Tail(s)
    ELSE <<s[1]>> \o RemoveFirstStar(Tail(s))

\* Positions of the fields of entry with attribute attr.
FieldsWith(entry, attr) ==
    {i \in 1..Len(entry.Field) : entry.Field[i].Attr = attr}

Min(S) == CHOOSE x \in S : \A y \in S : x <= y

\* The value of the first field of entry with attribute attr.
FirstVal(entry, attr) == entry.Field[Min(FieldsWith(entry, attr))].Val

TypeRecord(off, tag, fields) ==
    [Offset |-> off, Tag |-> tag, Children |-> FALSE, Field |-> fields]

TypeRef(off) == [Attr |-> AttrType, Val |-> off]

\* The fields of the last record of a path of n records: a name; neither a
\* name nor a type; a type offset the index does not hold (n + 1); or a type
\* offset back into the path.
FinalFields(n) ==
    {<<[Attr |-> AttrName, Val |-> nm]>> : nm \in TypeNames}
    \cup {<<>>}
    \cup {<<TypeRef(o)>> : o \in 1..(n + 1)}

\* The type records on a path of n records: record i, at offset i, refers to
\* record i + 1 and has no name; the last one has the fields `final`.
TypeTable(n, tags, final) ==
    [i \in 1..n |->
        NewNode(TypeRecord(i, tags[i],
                           IF i < n THEN <<TypeRef(i + 1)>> ELSE final))]

\* The formal parameter findType is called on.
ParamEntry(typeFields) ==
    [Offset |-> 0 - 1, Tag |-> TagFormalParameter, Children |-> FALSE,
     Field |-> <<[Attr |-> AttrName, Val |-> <<"x">>]>> \o typeFields]

\* findType(root, funcChild.Entry) is about to run on a tree whose offset
\* index holds the type records of one reference path.
TypeInit ==
    /\ recs = <<>>
    /\ lastOff = 0
    /\ first = FALSE
    /\ stack = <<>>
    /\ root = RootId
    /\ treePc = "idle"
    /\ ftPrefix = <<>>
    /\ ftDepth = 1
    /\ ftResult = <<>>
    /\ ftPc = "call"
    /\ \E n \in 0..MaxChain :
          IF n = 0
            THEN /\ nodes = EmptyMap
                 /\ OffsetMap = EmptyMap
                 /\ \E tf \in {<<>>, <<TypeRef(1)>>} : ftEntry = ParamEntry(tf)
            ELSE \E tags \in [1..n -> TypeTags], final \in FinalFields(n) :
                 /\ nodes = TypeTable(n, tags, final)
                 /\ OffsetMap = [o \in 1..n |-> o]
                 /\ ftEntry = ParamEntry(<<TypeRef(1)>>)

\* A slip that gives a pointer type no modifier.
ModifierNoPointer(typeEntry) ==
    IF typeEntry.Tag = TagStructType THEN StructModifier ELSE <<>>

\* The modifier findType builds from the tag of the referenced record.
Modifier(typeEntry) ==
    (IF typeEntry.Tag = TagStructType THEN StructModifier ELSE <<>>)
    \o (IF typeEntry.Tag = TagPointerType THEN PointerModifier ELSE <<>>)

\* What findType returns when the referenced record carries a name.
NamedResult(typeEntry) ==
    LET typeName == FirstVal(typeEntry, AttrName)
        modifier == Modifier(typeEntry)
    IN  (IF HasStarPrefix(typeName) THEN RemoveFirstStar(modifier) ELSE modifier)
        \o typeName

\* Whether root.OffsetMap holds the key off; a missing key yields the nil
\* *Node, whose .Entry is a nil pointer dereference.
InIndex(off) == off \in DOMAIN OffsetMap

\* root.OffsetMap[off].Entry
Lookup(off) == nodes[OffsetMap[off]].Entry

\* One call of findType on ftEntry: it returns "" when the entry has no type
\* field, panics when the type offset is not in the index, returns the
\* modified name when the referenced record has one, and otherwise calls
\* itself on the referenced record and prepends the modifier to the result.
FindTypeCall ==
    /\ UNCHANGED notType
    /\ ftPc = "call"
    /\ IF FieldsWith(ftEntry, AttrType) = {}
         THEN /\ ftPc' = "done"
              /\ ftResult' = ftPrefix
              /\ UNCHANGED <<ftEntry, ftPrefix, ftDepth>>
         ELSE LET off == FirstVal(ftEntry, AttrType)
                  typeEntry == Lookup(off)
              IN  IF ~InIndex(off)
                    THEN /\ ftPc' = "panic"
                         /\ UNCHANGED <<ftEntry, ftPrefix, ftDepth, ftResult>>
                    ELSE IF FieldsWith(typeEntry, AttrName) # {}
                    THEN /\ ftPc' = "done"
                         /\ ftResult' = ftPrefix \o NamedResult(typeEntry)
                         /\ UNCHANGED <<ftEntry, ftPrefix, ftDepth>>
                    ELSE /\ ftPc' = "call"
                         /\ ftEntry' = typeEntry
                         /\ IF ftDepth < MaxDepth
                              THEN /\ ftPrefix' = ftPrefix \o Modifier(typeEntry)
                                   /\ ftDepth' = ftDepth + 1
                              ELSE UNCHANGED <<ftPrefix, ftDepth>>
                         /\ UNCHANGED ftResult

NextType == FindTypeCall

InitType == TypeInit /\ LocIdle /\ CompIdle /\ TraceIdle /\ ArgsIdle

SpecType == InitType /\ [][NextType]_vars

\* The goroutine that runs findType keeps running.
SpecTypeFair == SpecType /\ WF_vars(NextType)

\* ------------------------------------------------------------------------
\* Properties of inspect.findType
\* ------------------------------------------------------------------------

\* Number of type records on the reference path.
PathLen == Cardinality(DOMAIN nodes)

PathEntry(i) == nodes[i].Entry

\* The path ends in a record that carries a name.
EndsNamed == PathLen >= 1 /\ FieldsWith(PathEntry(PathLen), AttrName) # {}

\* The path ends without a name: at a record with neither a name nor a type
\* field, or at a type offset the index does not hold.
EndsUnnamed ==
    \/ PathLen = 0
    \/ /\ PathLen >= 1
       /\ FieldsWith(PathEntry(PathLen), AttrName) = {}
       /\ \/ FieldsWith(PathEntry(PathLen), AttrType) = {}
          \/ ~InIndex(FirstVal(PathEntry(PathLen), AttrType))

\* Number of pointer-type records on the path.
PointerCount ==
    Cardinality({i \in 1..PathLen : PathEntry(i).Tag = TagPointerType})

RECURSIVE LeadingStars(_)
LeadingStars(s) ==
    IF HasStarPrefix(s) THEN 1 + LeadingStars(Tail(s)) ELSE 0

StarCount(s) == Cardinality({i \in 1..Len(s) : s[i] = "*"})

\* A path that starts at a pointer-type record, whose records before the last
\* are anonymous pointer or struct types, and that ends in a named record.
PointerPath ==
    /\ EndsNamed
    /\ PathEntry(1).Tag = TagPointerType
    /\ \A i \in 1..(PathLen - 1) :
          PathEntry(i).Tag \in {TagPointerType, TagStructType}

\* The named record that ends the path is a pointer type itself, or its name
\* has no "*" of its own.
PlainEnd ==
    \/ PathEntry(PathLen).Tag = TagPointerType
    \/ ~HasStarPrefix(FirstVal(PathEntry(PathLen), AttrName))

C8_EmptyNameNoCrash ==
    (ftPc \in {"done", "panic"} /\ EndsUnnamed) =>
        (ftPc = "done" /\ ftResult = <<>>)

\* ------------------------------------------------------------------------
\* dwarfutil.FindDwarf
\* ------------------------------------------------------------------------

\* Paths and names are sequences of characters.
Slash == <<"/">>
Dot == <<".">>
DebugSuffix == <<".", "d", "e", "b", "u", "g">>
DotDebugDir == DebugSuffix
UsrLibDebug ==
    <<"/", "u", "s", "r", "/", "l", "i", "b", "/", "d", "e", "b", "u", "g">>
BuildIDDir == UsrLibDebug \o <<"/", ".", "b", "u", "i", "l", "d", "-", "i", "d">>

\* The path components of s: the pieces between "/" characters.
RECURSIVE Split(_, _)
Split(s, cur) ==
    IF s = <<>> THEN <<cur>>
    ELSE IF s[1] = "/" THEN <<cur>> \o Split(Tail(s), <<>>)
    ELSE Split(Tail(s), Append(cur, s[1]))

\* The components that are neither empty nor ".".
RECURSIVE RealComponents(_)
RealComponents(comps) ==
    IF comps = <<>> THEN <<>>
    ELSE (IF comps[1] # <<>> /\ comps[1] # Dot THEN <<comps[1]>> ELSE <<>>)
         \o RealComponents(Tail(comps))

RECURSIVE JoinWith(_)
JoinWith(comps) ==
    IF comps = <<>> THEN <<>>
    ELSE IF Len(comps) = 1 THEN comps[1]
    ELSE comps[1] \o Slash \o JoinWith(Tail(comps))

\* filepath.Clean on the paths that occur here: empty and "." components go,
\* a rooted path stays rooted, the empty path is ".".
Clean(s) ==
    LET comps == RealComponents(Split(s, <<>>))
        rooted == s # <<>> /\ s[1] = "/"
        body == JoinWith(comps)
    IN  IF rooted THEN Slash \o body
        ELSE IF body = <<>> THEN Dot ELSE body

\* filepath.Join(a, b): the non-empty elements joined by "/", then cleaned.
Join(a, b) ==
    IF a = <<>> THEN Clean(b)
    ELSE IF b = <<>> THEN Clean(a)
    ELSE Clean(a \o Slash \o b)

\* filepath.Dir(s): all but the last component, cleaned.
RECURSIVE LastSlash(_, _)
LastSlash(s, i) == IF i = 0 \/ s[i] = "/" THEN i ELSE LastSlash(s, i - 1)

Dir(s) ==
    LET i == LastSlash(s, Len(s))
    IN  IF i = 0 THEN Dot
        ELSE IF i = 1 THEN Slash
        ELSE Clean(SubSeq(s, 1, i - 1))

HexDigits ==
    <<"0", "1", "2", "3", "4", "5", "6", "7", "8", "9",
      "a", "b", "c", "d", "e", "f">>

\* hex.EncodeToString(desc)
RECURSIVE HexEncode(_)
HexEncode(desc) ==
    IF desc = <<>> THEN <<>>
    ELSE <<HexDigits[(desc[1] \div 16) + 1], HexDigits[(desc[1] % 16) + 1]>>
         \o HexEncode(Tail(desc))

\* binary.Read(r, binary.LittleEndian, bh) in readBuildID is handed bh, a
\* buildIDHeader value and not a pointer to one: encoding/binary decodes only
\* into pointers and slices and returns "invalid type" for anything else.
BinaryReadHeaderErr(note) == TRUE

\* readBuildID(e): "" without the note section or when a read fails, else the
\* hex of the note's descriptor.  note is <<>> (no section) or <<desc>>.
ReadBuildID(note) ==
    IF note = <<>> THEN <<>>
    ELSE IF BinaryReadHeaderErr(note) THEN <<>>
    ELSE HexEncode(note[1])

\* Size of a .gnu_debuglink section for a name of n characters: the name, its
\* NUL, padding to a multiple of four, and the 4-byte checksum.
LinkSectionSize(n) == (((n + 1) + 3) \div 4) * 4 + 4

\* readDebugLink(e): nil without the section or when a read runs past its
\* end; it discards len(name) % 4 bytes after the NUL-terminated name and
\* then reads the 4 checksum bytes.  link is <<>> (no section) or <<name>>.
ReadDebugLink(link) ==
    IF link = <<>> THEN <<>>
    ELSE LET n    == Len(link[1]) + 1
             pad  == n % 4
             size == LinkSectionSize(Len(link[1]))
         IN  IF n + pad > size THEN <<>>
             ELSE IF n + pad + 4 > size THEN <<>>
             ELSE <<link[1]>>

\* The build-id store path FindDwarf derives from a non-empty buildID.
StorePath(buildID) ==
    Join(Join(BuildIDDir, SubSeq(buildID, 1, 2)),
         SubSeq(buildID, 3, Len(buildID)) \o DebugSuffix)

\* The three candidates FindDwarf derives from a debug link.
LinkPaths(path, name) ==
    LET origDir == Dir(path)
    IN  << Join(origDir, name),
           Join(Join(origDir, DotDebugDir), name),
           Join(Join(UsrLibDebug, origDir), name) >>

\* pathsToCheck as FindDwarf builds it.
PathsToCheck(path, e) ==
    LET buildID == ReadBuildID(e.Note)
        dbgLink == ReadDebugLink(e.Link)
    IN  (IF buildID # <<>> THEN <<StorePath(buildID)>> ELSE <<>>)
        \o (IF dbgLink # <<>> THEN LinkPaths(path, dbgLink[1]) ELSE <<>>)

\* Kind of the file at path p: "missing", "noelf", "nodwarf" or "dwarf".
KindOf(p) ==
    IF p = fdPath THEN fdInput.Kind
    ELSE IF p \in DOMAIN fs THEN fs[p] ELSE "missing"

\* elf.Open(p) succeeds.
OpensAsElf(p) == KindOf(p) \in {"nodwarf", "dwarf"}

\* A slip that never takes the early return for an input with debug info.
InputHasDwarfIgnored(p) == FALSE

\* e.DWARF() succeeds on the opened input.
InputHasDwarf(p) == KindOf(p) = "dwarf"

\* existsAndHasDwarf(p)
ExistsAndHasDwarf(p) == OpensAsElf(p) /\ KindOf(p) = "dwarf"

InputPaths ==
    { <<"/", "o", "p", "t", "/", "a", "p", "p">>, <<"a", "p", "p">> }

NoteDescs == { <<171, 205, 18>> }

LinkNames ==
    { <<"a", ".", "d", "e", "b", "u", "g">>,
      <<"p", "r", "o", "g", ".", "d", "e", "b", "u", "g">> }

CandidateKinds == {"missing", "nodwarf", "dwarf"}

\* FindDwarf(path) is about to run: the input is missing, not ELF, or an ELF
\* file with or without DWARF, a build-id note and a debug link; each of the
\* conventional places for its debug file is empty or holds an ELF file with
\* or without DWARF.
LocInit ==
    /\ opened = <<>>
    /\ pathsToCheck = <<>>
    /\ fdNext = 0
    /\ fdResult = <<>>
    /\ fdPc = "start"
    /\ fdPath \in InputPaths
    /\ \E kind \in {"missing", "noelf", "nodwarf", "dwarf"},
          note \in {<<>>} \cup {<<d>> : d \in NoteDescs},
          link \in {<<>>} \cup {<<n>> : n \in LinkNames} :
          fdInput = [Kind |-> kind, Note |-> note, Link |-> link]
    /\ \E ks \in [1..4 -> CandidateKinds] :
          LET store == IF fdInput.Note = <<>> THEN <<>>
                       ELSE <<StorePath(HexEncode(fdInput.Note[1]))>>
              links == IF fdInput.Link = <<>> THEN <<>>
                       ELSE LinkPaths(fdPath, fdInput.Link[1])
              cands == store \o links
          IN  fs = [p \in Range(cands) |->
                      ks[CHOOSE i \in 1..Len(cands) : cands[i] = p]]

\* FindDwarf up to its final loop: open the input, return it when it has
\* DWARF, else build pathsToCheck.
FindDwarfOpen ==
    /\ fdPc = "start"
    /\ opened' = Append(opened, fdPath)
    /\ IF ~OpensAsElf(fdPath)
         THEN /\ fdPc' = "openerr"
              /\ UNCHANGED <<pathsToCheck, fdNext, fdResult>>
         ELSE IF InputHasDwarf(fdPath)
         THEN /\ fdPc' = "done"
              /\ fdResult' = fdPath
              /\ UNCHANGED <<pathsToCheck, fdNext>>
         ELSE /\ fdPc' = "probe"
              /\ pathsToCheck' = PathsToCheck(fdPath, fdInput)
              /\ fdNext' = 1
              /\ UNCHANGED fdResult
    /\ UNCHANGED <<fdPath, fdInput, fs>>
    /\ UNCHANGED notLoc

\* One iteration of the final loop: existsAndHasDwarf(p) opens p.
FindDwarfProbe ==
    /\ fdPc = "probe"
    /\ fdNext <= Len(pathsToCheck)
    /\ opened' = Append(opened, pathsToCheck[fdNext])
    /\ IF ExistsAndHasDwarf(pathsToCheck[fdNext])
         THEN /\ fdPc' = "done"
              /\ fdResult' = pathsToCheck[fdNext]
              /\ UNCHANGED fdNext
         ELSE /\ fdNext' = fdNext + 1
              /\ UNCHANGED <<fdPc, fdResult>>
    /\ UNCHANGED <<fdPath, fdInput, fs, pathsToCheck>>
    /\ UNCHANGED notLoc

\* The loop ran out of candidates: "no debug symbols found".
FindDwarfNone ==
    /\ fdPc = "probe"
    /\ fdNext > Len(pathsToCheck)
    /\ fdPc' = "nodebug"
    /\ UNCHANGED <<fdPath, fdInput, fs, opened, pathsToCheck, fdNext, fdResult>>
    /\ UNCHANGED notLoc

NextLoc == FindDwarfOpen \/ FindDwarfProbe \/ FindDwarfNone

InitLoc ==
    LocInit /\ TreeIdle /\ TypeIdle /\ CompIdle /\ TraceIdle /\ ArgsIdle

SpecLoc == InitLoc /\ [][NextLoc]_vars

\* ------------------------------------------------------------------------
\* Properties of dwarfutil.FindDwarf
\* ------------------------------------------------------------------------

\* C9: when the input opens as ELF and reports DWARF, FindDwarf returns the
\* input path unchanged and opens no other path.
C9_InputWithDwarfReturned ==
    (fdPc # "start" /\ fdInput.Kind = "dwarf") =>
        /\ fdPc = "done"
        /\ fdResult = fdPath
        /\ opened = <<fdPath>>

C9_Witness ==
    /\ fdPc = "done"
    /\ fdInput.Kind = "dwarf"
    /\ opened = <<fdPath>>
    /\ fdInput.Note # <<>>
    /\ fdInput.Link # <<>>
    /\ \E p \in DOMAIN fs : fs[p] = "dwarf"

\* C10: when the input has no DWARF but carries a build-id note with hex id
\* H, FindDwarf probes /usr/lib/debug/.build-id/<H[:2]>/<H[2:]>.debug, and
\* does so before any candidate derived from the debug link.
C10_StorePathProbedFirst ==
    (fdPc \in {"done", "nodebug"} /\ fdInput.Kind = "nodwarf"
        /\ fdInput.Note # <<>>) =>
        /\ Len(opened) >= 2
        /\ opened[2] = StorePath(HexEncode(fdInput.Note[1]))

\* The candidates of the input in the fixed order: the build-id store path
\* when the input carries a build-id note, then the three places derived from
\* the debug link when it carries one.
Candidates ==
    (IF fdInput.Note = <<>> THEN <<>>
     ELSE <<StorePath(HexEncode(fdInput.Note[1]))>>)
    \o (IF fdInput.Link = <<>> THEN <<>>
        ELSE LinkPaths(fdPath, fdInput.Link[1]))

\* Positions of the candidates that open as ELF and report DWARF.
Qualifying == {i \in 1..Len(Candidates) : KindOf(Candidates[i]) = "dwarf"}

\* C11: when the input has no DWARF, FindDwarf returns the first candidate,
\* in the order store path, <dir>/<link>, <dir>/.debug/<link>,
\* /usr/lib/debug/<dir>/<link>, that opens as ELF and reports DWARF, and the
\* no-debug-info error when no candidate does.
C11_FirstQualifyingCandidate ==
    (fdPc \in {"done", "nodebug"} /\ fdInput.Kind = "nodwarf") =>
        IF Qualifying = {}
          THEN fdPc = "nodebug"
          ELSE fdPc = "done" /\ fdResult = Candidates[Min(Qualifying)]

\* ------------------------------------------------------------------------
\* trace.traceTarget.Compile
\* ------------------------------------------------------------------------

\* Most entries of the static and the dynamic symbol table together.
MaxSyms == 2

\* Most program headers of a binary.
MaxProgs == 2

\* uint64 arithmetic is done modulo AddrSpace, which stands for 2^64; every
\* address of the model lies below it.
AddrSpace == 16777216

\* elf.STT_FUNC, elf.PT_LOAD
STT_FUNC == 2
PT_LOAD == 1

\* elf.ST_TYPE(info): the low four bits of the info byte.
ST_TYPE(info) == info % 16

\* sym.Value - addrOffset on uint64.
SubU64(a, b) == (a - b + AddrSpace) % AddrSpace

Run == <<"R", "u", "n">>
MainRun == <<"m", "a", "i", "n", ".", "R", "u", "n">>
NoSuchFunc == <<"N", "o", "S", "u", "c", "h", "F", "u", "n", "c">>
AppPath == <<"a", "p", "p">>

\* A closure of main.Run and an instance of a generic function, as the Go
\* linker names them.
RunFunc1 == <<"m", "a", "i", "n", ".", "R", "u", "n", ".", "f", "u", "n", "c", "1">>
MapInt == <<"m", "a", "i", "n", ".", "M", "a", "p", "[", "i", "n", "t", "]">>

\* Character codes of the characters that occur in function names.
Ord(c) ==
    CASE c = "." -> 46
      [] c = "1" -> 49
      [] c = "A" -> 65
      [] c = "F" -> 70
      [] c = "M" -> 77
      [] c = "N" -> 78
      [] c = "R" -> 82
      [] c = "S" -> 83
      [] c = "[" -> 91
      [] c = "]" -> 93
      [] c = "_" -> 95
      [] c = "a" -> 97
      [] c = "c" -> 99
      [] c = "f" -> 102
      [] c = "h" -> 104
      [] c = "i" -> 105
      [] c = "m" -> 109
      [] c = "n" -> 110
      [] c = "o" -> 111
      [] c = "p" -> 112
      [] c = "t" -> 116
      [] c = "u" -> 117
      [] c = "z" -> 122

\* The rune test of safeName: r >= 'A' && r <= 'z' || r == '_'.
SafeRune(c) == (Ord(c) >= 65 /\ Ord(c) <= 122) \/ c = "_"

\* safeName(n): strings.Map dropping the runes that fail the test.
RECURSIVE safeName(_)
safeName(n) ==
    IF n = <<>> THEN <<>>
    ELSE (IF SafeRune(n[1]) THEN <<n[1]>> ELSE <<>>) \o safeName(Tail(n))

DecDigits == <<"0", "1", "2", "3", "4", "5", "6", "7", "8", "9">>

\* fmt.Sprintf("%d", n) for n >= 0.
RECURSIVE Itoa(_)
Itoa(n) ==
    IF n < 10 THEN <<DecDigits[n + 1]>>
    ELSE Itoa(n \div 10) \o <<DecDigits[(n % 10) + 1]>>

\* A slip that takes the last PT_LOAD header instead of the first.
LastLoadVaddr(progs) ==
    LET loads == {i \in 1..Len(progs) : progs[i].Type = PT_LOAD}
    IN  IF loads = {} THEN 0
        ELSE progs[CHOOSE i \in loads : \A j \in loads : j <= i].Vaddr

\* addrOffset: the Vaddr of the first PT_LOAD header, 0 without one.
FirstLoadVaddr(progs) ==
    LET loads == {i \in 1..Len(progs) : progs[i].Type = PT_LOAD}
    IN  IF loads = {} THEN 0 ELSE progs[Min(loads)].Vaddr

\* A slip that accepts a symbol whose name merely contains the function.
RECURSIVE Contains(_, _)
Contains(s, sub) ==
    IF Len(sub) > Len(s) THEN FALSE
    ELSE IF SubSeq(s, 1, Len(sub)) = sub THEN TRUE
    ELSE Contains(Tail(s), sub)

NameMatchesSubstring(symName, function) == Contains(symName, function)

\* sym.Name == t.function
NameMatches(symName, function) == symName = function

\* A slip that takes any entry named function, whatever its type.
FuncMatchesAnyType(symbols, function) ==
    {i \in 1..Len(symbols) : NameMatches(symbols[i].Name, function)}

\* Positions in symbols of the FUNCTION-typed entries named function.
FuncMatches(symbols, function) ==
    {i \in 1..Len(symbols) :
        /\ ST_TYPE(symbols[i].Info) = STT_FUNC
        /\ NameMatches(symbols[i].Name, function)}

\* exe.Symbols() and exe.DynamicSymbols(): a table that cannot be read is an
\* error and no entries.
SymbolsOf(exe) == IF exe.ErrSym THEN <<>> ELSE exe.Symbols
DynamicSymbolsOf(exe) == IF exe.ErrDyn THEN <<>> ELSE exe.DynSyms

\* t.Compile(idx): the outcome and the target as Compile leaves it.
\* "fatal" is log.Fatalf: the process exits inside Compile.
Compile(t, idx) ==
    IF t.binary \notin DOMAIN exes
      THEN [res |-> "openerr", t |-> t]
    ELSE LET exe == exes[t.binary]
             symbols == SymbolsOf(exe) \o DynamicSymbolsOf(exe)
             addrOffset == FirstLoadVaddr(exe.Progs)
             found == FuncMatches(symbols, t.function)
         IN  IF exe.ErrSym /\ exe.ErrDyn
               THEN [res |-> "fatal", t |-> t]
             ELSE IF found = {}
               THEN [res |-> "notfound", t |-> t]
             ELSE [res |-> "ok",
                   t |-> [t EXCEPT
                        !.functionAddr = SubU64(symbols[Min(found)].Value, addrOffset),
                        !.targetName = safeName(t.function) \o <<"_">> \o Itoa(idx)]]

\* &traceTarget{binary: b, function: f}
NewTarget(b, f) ==
    [binary |-> b, function |-> f, targetName |-> <<>>, functionAddr |-> 0]

SymbolNames == {Run, MainRun}
FunctionNames == {Run, MainRun, NoSuchFunc}

\* Info bytes: a global FUNC and a global OBJECT.
SymbolEntries ==
    {[Name |-> n, Info |-> i, Value |-> v] :
        n \in SymbolNames, i \in {18, 17}, v \in {4780320, 4096}}

ProgEntries ==
    {[Type |-> t, Vaddr |-> v] : t \in {PT_LOAD, 4}, v \in {0, 4194304}}

SeqsUpTo(S, n) == UNION {[1..k -> S] : k \in 0..n}

\* The ELF images with the symbol entries syms, split at any place into the
\* static and the dynamic table, either of which may be unreadable, and the
\* program headers ps.
ExeImages(syms, ps) ==
    {[ErrSym |-> es, ErrDyn |-> ed,
      Symbols |-> SubSeq(syms, 1, k),
      DynSyms |-> SubSeq(syms, k + 1, Len(syms)),
      Progs |-> ps] :
        k \in 0..Len(syms), es \in BOOLEAN, ed \in BOOLEAN}

\* An unreadable table has no entries.
WellFormedExe(exe) ==
    /\ exe.ErrSym => exe.Symbols = <<>>
    /\ exe.ErrDyn => exe.DynSyms = <<>>

CompileInit ==
    /\ compilePc = "call"
    /\ compileRes = "none"
    /\ compileIdx \in {0, 1}
    /\ \E f \in FunctionNames : target = NewTarget(AppPath, f)
    /\ \/ exes = EmptyMap
       \/ \E syms \in SeqsUpTo(SymbolEntries, MaxSyms),
             ps \in SeqsUpTo(ProgEntries, MaxProgs) :
             \E exe \in ExeImages(syms, ps) :
                 /\ WellFormedExe(exe)
                 /\ exes = [b \in {AppPath} |-> exe]

\* One call t.Compile(idx).
CompileCall ==
    /\ compilePc = "call"
    /\ compilePc' = "returned"
    /\ compileRes' = Compile(target, compileIdx).res
    /\ target' = Compile(target, compileIdx).t
    /\ UNCHANGED <<exes, compileIdx>>
    /\ UNCHANGED notCompile

NextCompile == CompileCall

InitCompile ==
    CompileInit /\ TreeIdle /\ TypeIdle /\ LocIdle /\ TraceIdle /\ ArgsIdle

SpecCompile == InitCompile /\ [][NextCompile]_vars

\* ------------------------------------------------------------------------
\* Properties of traceTarget.Compile
\* ------------------------------------------------------------------------

\* The binary of the compiled target, when it opens.
TargetExe == exes[target.binary]

\* The static table's entries followed by the dynamic table's.
AllSymbols == TargetExe.Symbols \o TargetExe.DynSyms

IsFunc(sym) == sym.Info % 16 = 2

\* Entry i is the symbol Compile finds: the first FUNCTION-typed entry whose
\* name is the requested function.
FoundAt(i) ==
    /\ IsFunc(AllSymbols[i]) /\ AllSymbols[i].Name = target.function
    /\ \A k \in 1..(i - 1) :
          ~(IsFunc(AllSymbols[k]) /\ AllSymbols[k].Name = target.function)

\* Header j is the first PT_LOAD header in header order.
FirstLoadAt(j) ==
    /\ TargetExe.Progs[j].Type = 1
    /\ \A k \in 1..(j - 1) : TargetExe.Progs[k].Type # 1

\* C1: when Compile finds a FUNCTION symbol named as requested, with value V,
\* and the first PT_LOAD header has vaddr B <= V, functionAddr is V - B.
C1_OffsetIsValueMinusBase ==
    (compilePc = "returned" /\ target.binary \in DOMAIN exes) =>
        \A i \in 1..Len(AllSymbols), j \in 1..Len(TargetExe.Progs) :
            (FoundAt(i) /\ FirstLoadAt(j)
                /\ AllSymbols[i].Value >= TargetExe.Progs[j].Vaddr) =>
                /\ compileRes = "ok"
                /\ target.functionAddr =
                       AllSymbols[i].Value - TargetExe.Progs[j].Vaddr

C1_Witness ==
    /\ compilePc = "returned"
    /\ compileRes = "ok"
    /\ target.binary \in DOMAIN exes
    /\ Len(TargetExe.Progs) = 2
    /\ TargetExe.Progs[1].Type # 1
    /\ TargetExe.Progs[2] = [Type |-> 1, Vaddr |-> 4194304]
    /\ \E i \in 1..Len(AllSymbols) : FoundAt(i) /\ AllSymbols[i].Value = 4780320
    /\ target.functionAddr = 586016

\* The binary `app` of the end-to-end scenario: FUNCTION symbol main.Run at
\* 0x48f120, first PT_LOAD vaddr 0x400000.
AppScenario ==
    /\ target.binary \in DOMAIN exes
    /\ ~TargetExe.ErrSym
    /\ TargetExe.Symbols = <<[Name |-> MainRun, Info |-> 18, Value |-> 4780320]>>
    /\ TargetExe.DynSyms = <<>>
    /\ TargetExe.Progs = <<[Type |-> 1, Vaddr |-> 4194304]>>

\* C3 as stated: on `app`, resolving `Run`, a substring of the symbol name
\* main.Run, resolves to that symbol and yields offset 0x8f120.
C3_SubstringResolves ==
    (compilePc = "returned" /\ AppScenario /\ target.function = Run) =>
        (compileRes = "ok" /\ target.functionAddr = 586016)

\* C3 amended: Compile resolves a name only to a FUNCTION symbol whose name
\* equals it: on `app`, resolving `main.Run` yields offset 0x8f120, and
\* resolving `Run`, which is only a substring of main.Run, yields the
\* not-found error.
C3_ExactNameResolves ==
    compilePc = "returned" =>
        /\ compileRes = "ok" =>
              \E i \in 1..Len(AllSymbols) :
                  IsFunc(AllSymbols[i]) /\ AllSymbols[i].Name = target.function
        /\ (AppScenario /\ target.function = MainRun) =>
              (compileRes = "ok" /\ target.functionAddr = 586016)
        /\ (AppScenario /\ target.function = Run) => compileRes = "notfound"

C3_Witness ==
    /\ compilePc = "returned"
    /\ AppScenario
    /\ target.function = Run
    /\ compileRes = "notfound"

\* ------------------------------------------------------------------------
\* trace.traceAction
\* ------------------------------------------------------------------------

\* Most targets on one command line.
MaxTargets == 2

\* Most signals delivered to the process.
MaxSignals == 1

LibPath == <<"l", "i", "b">>
StrippedPath == <<"s", "t", "r", "i", "p">>
MissingPath == <<"g", "o", "n", "e">>

\* The binaries on disk: `app` with a static table, `lib` with only a
\* dynamic table, `strip` with no readable table; `gone` does not exist.
TraceExes ==
    [b \in {AppPath, LibPath, StrippedPath} |->
        IF b = AppPath THEN
            [ErrSym |-> FALSE, ErrDyn |-> FALSE,
             Symbols |-> <<[Name |-> MainRun, Info |-> 18, Value |-> 4780320],
                           [Name |-> Run, Info |-> 17, Value |-> 4096],
                           [Name |-> RunFunc1, Info |-> 18, Value |-> 4780576],
                           [Name |-> MapInt, Info |-> 18, Value |-> 4780832]>>,
             DynSyms |-> <<>>,
             Progs |-> <<[Type |-> 4, Vaddr |-> 0],
                         [Type |-> PT_LOAD, Vaddr |-> 4194304]>>]
        ELSE IF b = LibPath THEN
            [ErrSym |-> TRUE, ErrDyn |-> FALSE,
             Symbols |-> <<>>,
             DynSyms |-> <<[Name |-> Run, Info |-> 18, Value |-> 4096]>>,
             Progs |-> <<[Type |-> PT_LOAD, Vaddr |-> 0]>>]
        ELSE
            [ErrSym |-> TRUE, ErrDyn |-> TRUE,
             Symbols |-> <<>>, DynSyms |-> <<>>,
             Progs |-> <<[Type |-> PT_LOAD, Vaddr |-> 0]>>]]

\* The targets one command line can name.
TraceTargets ==
    {NewTarget(b, f) :
        b \in {AppPath, LibPath, StrippedPath, MissingPath},
        f \in {MainRun, Run, RunFunc1, MapInt}}

\* t.Uprobe()
Uprobe(t) ==
    [Group |-> "pptrace", Event |-> t.targetName, Path |-> t.binary,
     Offset |-> t.functionAddr]

NoEvent == [Group |-> "", Event |-> <<>>, Path |-> <<>>, Offset |-> 0]

\* One call on the collaborator: by the main goroutine or the closer, for the
\* target at position idx (0 for the pipe).
Call(op, by, idx, evt) == [op |-> op, by |-> by, idx |-> idx, evt |-> evt]

\* traceAction after its argument loop: targets holds the parsed targets and
\* the first loop is about to compile them.
TraceInit ==
    /\ exes = TraceExes
    /\ target = Nil
    /\ compileIdx = 0
    /\ compileRes = "none"
    /\ compilePc = "idle"
    /\ targets \in UNION {[1..k -> TraceTargets] : k \in 1..MaxTargets}
    /\ dryRun \in BOOLEAN
    /\ taPc = "compile"
    /\ taI = 1
    /\ compiled = <<>>
    /\ defers = <<>>
    /\ calls = <<>>
    /\ taErr = NoError
    /\ notified = FALSE
    /\ sigChan = 0
    /\ stopClosed = FALSE
    /\ sigG = "none"
    /\ closerG = "none"
    /\ pipe = "none"
    /\ signals = 0

\* The process is running: traceAction has not returned and nothing has
\* ended the process.
Live == taPc \notin {"idle", "returned", "fatal", "killed"}

\* A slip that carries on with a target whose function was not found.
CompileFailedButNotFound(res) == res \notin {"ok", "notfound"}

\* err != nil after t.Compile(i)
CompileFailed(res) == res # "ok"

\* A slip that leaves a loop after its first target.
AdvanceAfterFirst(after) == taPc' = after /\ taI' = 1

\* The loop over targets moves on: to the next target, or to the code after
\* the loop.
Advance(after) ==
    IF taI = Len(targets)
      THEN taPc' = after /\ taI' = 1
      ELSE taPc' = taPc /\ taI' = taI + 1

\* One iteration of the first loop: t.Compile(i), return on its error.
TACompile ==
    /\ taPc = "compile"
    /\ LET r == Compile(targets[taI], taI - 1)
       IN  /\ compiled' = Append(compiled, r.res)
           /\ targets' = [targets EXCEPT ![taI] = r.t]
           /\ IF r.res = "fatal"
                THEN taPc' = "fatal" /\ UNCHANGED <<taI, taErr>>
              ELSE IF CompileFailed(r.res)
                THEN /\ taPc' = "defers"
                     /\ taErr' = [kind |-> r.res, idx |-> taI]
                     /\ UNCHANGED taI
              ELSE Advance("add") /\ UNCHANGED taErr
    /\ UNCHANGED <<dryRun, defers, calls, notified, sigChan, stopClosed,
                   sigG, closerG, pipe, signals>>
    /\ UNCHANGED notTrace

\* One iteration of the second loop: AddUprobeEvent unless --dry, return on
\* its error, defer RemoveUprobeEvent.
TAAdd ==
    /\ taPc = "add"
    /\ LET evt == Uprobe(targets[taI])
       IN  \E ok \in BOOLEAN :
             /\ dryRun => ok
             /\ calls' = IF dryRun THEN calls
                         ELSE Append(calls, Call("AddUprobeEvent", "main", taI, evt))
             /\ IF ok
                  THEN /\ defers' = Append(defers, Call("RemoveUprobeEvent", "main", taI, evt))
                       /\ Advance("enable")
                       /\ UNCHANGED taErr
                  ELSE /\ taPc' = "defers"
                       /\ taErr' = [kind |-> "adderr", idx |-> taI]
                       /\ UNCHANGED <<defers, taI>>
    /\ UNCHANGED <<targets, dryRun, compiled, notified, sigChan, stopClosed,
                   sigG, closerG, pipe, signals>>
    /\ UNCHANGED notTrace

\* One iteration of the third loop: EnableUprobe unless --dry, return on its
\* error, defer DisableUprobe.
TAEnable ==
    /\ taPc = "enable"
    /\ LET evt == Uprobe(targets[taI])
       IN  \E ok \in BOOLEAN :
             /\ dryRun => ok
             /\ calls' = IF dryRun THEN calls
                         ELSE Append(calls, Call("EnableUprobe", "main", taI, evt))
             /\ IF ok
                  THEN /\ defers' = IF dryRun THEN defers
                                    ELSE Append(defers, Call("DisableUprobe", "main", taI, evt))
                       /\ Advance("notify")
                       /\ UNCHANGED taErr
                  ELSE /\ taPc' = "defers"
                       /\ taErr' = [kind |-> "enableerr", idx |-> taI]
                       /\ UNCHANGED <<defers, taI>>
    /\ UNCHANGED <<targets, dryRun, compiled, notified, sigChan, stopClosed,
                   sigG, closerG, pipe, signals>>
    /\ UNCHANGED notTrace

\* signal.Notify(sigChan, ...), make(stop), and the goroutine that waits on
\* sigChan.
TANotify ==
    /\ taPc = "notify"
    /\ taPc' = "pipe"
    /\ notified' = TRUE
    /\ sigG' = "waiting"
    /\ UNCHANGED <<targets, dryRun, taI, compiled, defers, calls, taErr,
                   sigChan, stopClosed, closerG, pipe, signals>>
    /\ UNCHANGED notTrace

\* Unless --dry: inst.TracePipe(), return on its error, defer p.Close() and
\* start the goroutine that closes p once stop is closed.
TAPipe ==
    /\ taPc = "pipe"
    /\ IF dryRun
         THEN /\ taPc' = "defers"
              /\ UNCHANGED <<calls, defers, taErr, closerG, pipe>>
         ELSE \E ok \in BOOLEAN :
              /\ calls' = Append(calls, Call("TracePipe", "main", 0, NoEvent))
              /\ IF ok
                   THEN /\ pipe' = "open"
                        /\ defers' = Append(defers, Call("Close", "main", 0, NoEvent))
                        /\ closerG' = "waiting"
                        /\ taPc' = "copy"
                        /\ UNCHANGED taErr
                   ELSE /\ taPc' = "defers"
                        /\ taErr' = [kind |-> "pipeerr", idx |-> 0]
                        /\ UNCHANGED <<defers, closerG, pipe>>
    /\ UNCHANGED <<targets, dryRun, taI, compiled, notified, sigChan,
                   stopClosed, sigG, signals>>
    /\ UNCHANGED notTrace

\* io.Copy(os.Stdout, p) returns: the pipe has been closed under it.
TACopyClosed ==
    /\ taPc = "copy"
    /\ pipe = "closed"
    /\ taPc' = "defers"
    /\ UNCHANGED <<targets, dryRun, taI, compiled, defers, calls, taErr,
                   notified, sigChan, stopClosed, sigG, closerG, pipe, signals>>
    /\ UNCHANGED notTrace

\* io.Copy(os.Stdout, p) returns: a read or a write failed.
TACopyError ==
    /\ taPc = "copy"
    /\ pipe = "open"
    /\ taPc' = "defers"
    /\ UNCHANGED <<targets, dryRun, taI, compiled, defers, calls, taErr,
                   notified, sigChan, stopClosed, sigG, closerG, pipe, signals>>
    /\ UNCHANGED notTrace

\* traceAction returns: the deferred calls run, last deferred first.
TADefer ==
    /\ taPc = "defers"
    /\ defers # <<>>
    /\ calls' = Append(calls, Last(defers))
    /\ defers' = Front(defers)
    /\ pipe' = IF Last(defers).op = "Close" THEN "closed" ELSE pipe
    /\ UNCHANGED <<targets, dryRun, taPc, taI, compiled, taErr, notified,
                   sigChan, stopClosed, sigG, closerG, signals>>
    /\ UNCHANGED notTrace

\* No deferred call is left: traceAction has returned.
TAReturn ==
    /\ taPc = "defers"
    /\ defers = <<>>
    /\ taPc' = "returned"
    /\ UNCHANGED <<targets, dryRun, taI, compiled, defers, calls, taErr,
                   notified, sigChan, stopClosed, sigG, closerG, pipe, signals>>
    /\ UNCHANGED notTrace

\* An interrupt or SIGTERM arrives.  Before signal.Notify it ends the
\* process; after it the signal is buffered in sigChan, or dropped when the
\* buffer is full.
Signal ==
    /\ Live
    /\ signals < MaxSignals
    /\ signals' = signals + 1
    /\ IF notified
         THEN sigChan' = 1 /\ UNCHANGED taPc
         ELSE taPc' = "killed" /\ UNCHANGED sigChan
    /\ UNCHANGED <<targets, dryRun, taI, compiled, defers, calls, taErr,
                   notified, stopClosed, sigG, closerG, pipe>>
    /\ UNCHANGED notTrace

\* go func() { <-sigChan; close(stop) }()
SigGoroutine ==
    /\ Live
    /\ sigG = "waiting"
    /\ sigChan = 1
    /\ sigChan' = 0
    /\ stopClosed' = TRUE
    /\ sigG' = "done"
    /\ UNCHANGED <<targets, dryRun, taPc, taI, compiled, defers, calls, taErr,
                   notified, closerG, pipe, signals>>
    /\ UNCHANGED notTrace

\* A slip in which the second goroutine ends without closing the pipe.
CloserNeverCloses ==
    /\ Live
    /\ closerG = "waiting"
    /\ stopClosed
    /\ closerG' = "done"
    /\ UNCHANGED <<targets, dryRun, taPc, taI, compiled, defers, calls, taErr,
                   notified, sigChan, stopClosed, sigG, pipe, signals>>
    /\ UNCHANGED notTrace

\* go func() { <-stop; p.Close() }()
CloserGoroutine ==
    /\ Live
    /\ closerG = "waiting"
    /\ stopClosed
    /\ closerG' = "done"
    /\ calls' = Append(calls, Call("Close", "closer", 0, NoEvent))
    /\ pipe' = "closed"
    /\ UNCHANGED <<targets, dryRun, taPc, taI, compiled, defers, taErr,
                   notified, sigChan, stopClosed, sigG, signals>>
    /\ UNCHANGED notTrace

NextTrace ==
    \/ TACompile
    \/ TAAdd
    \/ TAEnable
    \/ TANotify
    \/ TAPipe
    \/ TACopyClosed
    \/ TACopyError
    \/ TADefer
    \/ TAReturn
    \/ Signal
    \/ SigGoroutine
    \/ CloserGoroutine

InitTrace == TraceInit /\ TreeIdle /\ TypeIdle /\ LocIdle /\ ArgsIdle

SpecTrace == InitTrace /\ [][NextTrace]_vars

\* The steps of the main goroutine.
MainGoroutine ==
    \/ TACompile
    \/ TAAdd
    \/ TAEnable
    \/ TANotify
    \/ TAPipe
    \/ TACopyClosed
    \/ TADefer
    \/ TAReturn

\* The Go scheduler lets every runnable goroutine run; nothing obliges a
\* signal to arrive or the copy to fail.
SpecTraceFair ==
    /\ SpecTrace
    /\ WF_vars(MainGoroutine)
    /\ WF_vars(SigGoroutine)
    /\ WF_vars(CloserGoroutine)

\* ------------------------------------------------------------------------
\* Properties of traceAction
\* ------------------------------------------------------------------------

\* The function requested for target t is the name of no FUNCTION-typed entry
\* of the static or dynamic symbol table of its binary (the binary opens and
\* at least one of its tables can be read).
NoFunctionEntry(t) ==
    /\ t.binary \in DOMAIN exes
    /\ ~(exes[t.binary].ErrSym /\ exes[t.binary].ErrDyn)
    /\ \A sym \in Range(exes[t.binary].Symbols \o exes[t.binary].DynSyms) :
          ~(sym.Info % 16 = 2 /\ sym.Name = t.function)

\* C2: when the requested function matches no FUNCTION-typed entry of the
\* static or dynamic symbol table, Compile returns the not-found error,
\* traceAction returns it, and no AddUprobeEvent call is ever made for that
\* target.  (A binary neither of whose tables can be read ends the process
\* in log.Fatalf instead; no AddUprobeEvent call is made then either.)
C2_NotFoundNeverAdded ==
    \A i \in 1..Len(targets) :
        NoFunctionEntry(targets[i]) =>
            /\ i <= Len(compiled) =>
                  /\ compiled[i] = "notfound"
                  /\ taErr = [kind |-> "notfound", idx |-> i]
                  /\ taPc \in {"defers", "returned", "killed"}
            /\ \A c \in Range(calls) : ~(c.op = "AddUprobeEvent" /\ c.idx = i)

C2_Witness ==
    /\ taPc = "returned"
    /\ ~dryRun
    /\ Len(targets) = 2
    /\ compiled = <<"ok", "notfound">>
    /\ NoFunctionEntry(targets[2])
    /\ targets[2].functionAddr = 0
    /\ calls = <<>>

Reverse(s) == [i \in 1..Len(s) |-> s[Len(s) + 1 - i]]

\* Positions in calls of the calls of operation op.
CallsOf(op) == {k \in 1..Len(calls) : calls[k].op = op}

\* The targets, in order, for which the call op was made and did not fail.
Acquired(op, errKind) ==
    SelectSeq([i \in 1..Len(targets) |-> i],
              LAMBDA i : /\ \E k \in CallsOf(op) : calls[k].idx = i
                         /\ taErr # [kind |-> errKind, idx |-> i])

Defined == Acquired("AddUprobeEvent", "adderr")
Enabled == Acquired("EnableUprobe", "enableerr")

\* The targets of the calls of operation op, in call order.
TargetsOf(op) ==
    LET sel == SelectSeq(calls, LAMBDA c : c.op = op)
    IN  [k \in 1..Len(sel) |-> sel[k].idx]

\* The process has ended: traceAction returned, or a signal or log.Fatalf
\* ended it.
Ended == taPc \in {"returned", "killed", "fatal"}

\* The resources were released in reverse order of acquisition: the pipe
\* closed first (when it was opened), then the enabled probes disabled, last
\* enabled first, then the defined probes removed, last defined first.
ReleasedInReverse ==
    /\ TargetsOf("DisableUprobe") = Reverse(Enabled)
    /\ TargetsOf("RemoveUprobeEvent") = Reverse(Defined)
    /\ \A d \in CallsOf("DisableUprobe"), r \in CallsOf("RemoveUprobeEvent") : d < r
    /\ pipe # "none" =>
          /\ CallsOf("Close") # {}
          /\ \A c \in CallsOf("DisableUprobe") \cup CallsOf("RemoveUprobeEvent") :
                Min(CallsOf("Close")) < c

\* C12: on every exit path after at least one probe has been defined, an
\* interrupt or SIGTERM after the first AddUprobeEvent included, the pipe is
\* closed, then the enabled probes are disabled in reverse order, then the
\* defined probes are removed in reverse order.
C12_TeardownOnEveryExit ==
    (Ended /\ Defined # <<>>) => ReleasedInReverse

\* The same on the paths on which traceAction returns.
C12_TeardownOnReturn ==
    (taPc = "returned" /\ Defined # <<>>) => ReleasedInReverse

\* A letter, a digit or '_'.
IsIdentChar(c) ==
    \/ Ord(c) \in 48..57
    \/ Ord(c) \in 65..90
    \/ Ord(c) \in 97..122
    \/ c = "_"

\* n with every character that is not a letter, a digit or '_' removed.
IdentOnly(n) == SelectSeq(n, IsIdentChar)

\* C13: the event name Compile(idx) produces is the requested function name
\* with every character other than a letter, a digit or '_' removed and
\* every such character kept, followed by '_' and idx.
C13_EventNameIdentChars ==
    \A i \in 1..Len(compiled) :
        compiled[i] = "ok" =>
            targets[i].targetName =
                IdentOnly(targets[i].function) \o <<"_">> \o Itoa(i - 1)

\* ------------------------------------------------------------------------
\* inspect.funcArgsAction
\* ------------------------------------------------------------------------

\* Most children of compile units in the tree.
MaxPkgNodes == 3

\* Children of compile units: subprograms with a name, a subprogram without
\* a name attribute (an out-of-line instance that refers to its abstract
\* origin), and a typedef.  Name is <<>> or <<name>>.
PkgNodeEntries ==
    {[Tag |-> TagSubprogram, Name |-> n] : n \in {<<>>, <<Run>>, <<MainRun>>}}
    \cup {[Tag |-> TagTypedef, Name |-> <<Run>>]}

\* args <file> [<function-name>] [--all] [--exact] is about to run on a
\* file whose tree Tree has built.
ArgsInit ==
    /\ allFlag \in BOOLEAN
    /\ exactMatch \in BOOLEAN
    /\ faArgs \in {<<>>} \cup {<<f>> : f \in {Run, MainRun, NoSuchFunc}}
    /\ matchFuncName = <<>>
    /\ pkgNodes \in SeqsUpTo(PkgNodeEntries, MaxPkgNodes)
    /\ faI = 0
    /\ emitted = {}
    /\ faPc = "start"

\* The argument checks and the choice of matchFuncName.
FuncArgsStart ==
    /\ faPc = "start"
    /\ IF faArgs = <<>> /\ ~allFlag
         THEN /\ faPc' = "fatal"
              /\ UNCHANGED <<matchFuncName, faI>>
         ELSE /\ matchFuncName' = IF ~allFlag THEN faArgs[1] ELSE <<>>
              /\ faPc' = "loop"
              /\ faI' = 1
    /\ UNCHANGED <<allFlag, exactMatch, faArgs, pkgNodes, emitted>>
    /\ UNCHANGED notArgs

\* funcName after the loop over the fields of a subprogram entry.
FuncName(entry) ==
    IF entry.Name = <<>> THEN <<>>
    ELSE IF exactMatch
      THEN (IF entry.Name[1] = matchFuncName THEN entry.Name[1] ELSE <<>>)
    ELSE IF Contains(entry.Name[1], matchFuncName) THEN entry.Name[1]
    ELSE <<>>

\* One iteration of the loop over the children of the compile units.
FuncArgsVisit ==
    /\ faPc = "loop"
    /\ faI <= Len(pkgNodes)
    /\ emitted' =
          IF pkgNodes[faI].Tag = TagSubprogram /\ FuncName(pkgNodes[faI]) # <<>>
            THEN emitted \cup {faI}
            ELSE emitted
    /\ faI' = faI + 1
    /\ UNCHANGED <<allFlag, exactMatch, faArgs, matchFuncName, pkgNodes, faPc>>
    /\ UNCHANGED notArgs

\* The loops are over: funcArgsAction returns.
FuncArgsReturn ==
    /\ faPc = "loop"
    /\ faI > Len(pkgNodes)
    /\ faPc' = "returned"
    /\ UNCHANGED <<allFlag, exactMatch, faArgs, matchFuncName, pkgNodes, faI,
                   emitted>>
    /\ UNCHANGED notArgs

NextArgs == FuncArgsStart \/ FuncArgsVisit \/ FuncArgsReturn

InitArgs ==
    ArgsInit /\ TreeIdle /\ TypeIdle /\ LocIdle /\ CompIdle /\ TraceIdle

SpecArgs == InitArgs /\ [][NextArgs]_vars

\* ------------------------------------------------------------------------
\* Properties of funcArgsAction
\* ------------------------------------------------------------------------

\* The top-level subprograms of the tree.
Subprograms == {i \in 1..Len(pkgNodes) : pkgNodes[i].Tag = TagSubprogram}

\* The name of subprogram i contains the filter, or equals it under --exact.
MatchesFilter(i) ==
    /\ pkgNodes[i].Name # <<>>
    /\ faArgs # <<>>
    /\ IF exactMatch THEN pkgNodes[i].Name[1] = faArgs[1]
                     ELSE Contains(pkgNodes[i].Name[1], faArgs[1])

\* C14: with --all, funcArgsAction emits every top-level subprogram (every
\* one that has a name to print), for
\* either value of --exact and with or without a positional filter; without
\* --all it emits a subprogram iff its name contains the filter (equals it
\* under --exact).
C14_AllEmitsEverySubprogram ==
    faPc = "returned" =>
        IF allFlag THEN emitted = {i \in Subprograms : pkgNodes[i].Name # <<>>}
        ELSE emitted = {i \in Subprograms : MatchesFilter(i)}

\* The part about runs without --all.
C14_FilterSelects ==
    (faPc = "returned" /\ ~allFlag) =>
        emitted = {i \in Subprograms : MatchesFilter(i)}

\* ------------------------------------------------------------------------
\* More properties of traceTarget.Compile
\* ------------------------------------------------------------------------

\* The vaddr of the first PT_LOAD header of the target's binary, 0 without
\* one.
LoadBase ==
    LET loads == {j \in 1..Len(TargetExe.Progs) : FirstLoadAt(j)}
    IN  IF loads = {} THEN 0 ELSE TargetExe.Progs[CHOOSE j \in loads : TRUE].Vaddr

\* C15: when the requested name occurs as a FUNCTION symbol several times,
\* in one table or in both, Compile uses the value of the first such entry
\* in the order static entries, then dynamic entries; entries of the same
\* name that are not FUNCTION-typed are never used.
C15_FirstFunctionMatchWins ==
    (compilePc = "returned" /\ target.binary \in DOMAIN exes) =>
        \A i \in 1..Len(AllSymbols) :
            FoundAt(i) =>
                /\ compileRes = "ok"
                /\ target.functionAddr = SubU64(AllSymbols[i].Value, LoadBase)

\* The name is a FUNCTION symbol of both tables, with different values, and
\* the static one was used.
C15_Witness ==
    /\ compilePc = "returned"
    /\ compileRes = "ok"
    /\ target.binary \in DOMAIN exes
    /\ Len(TargetExe.Symbols) = 1
    /\ Len(TargetExe.DynSyms) = 1
    /\ IsFunc(TargetExe.Symbols[1]) /\ IsFunc(TargetExe.DynSyms[1])
    /\ TargetExe.Symbols[1].Name = target.function
    /\ TargetExe.DynSyms[1].Name = target.function
    /\ TargetExe.Symbols[1].Value = 4780320
    /\ TargetExe.DynSyms[1].Value = 4096
    /\ TargetExe.Progs = <<[Type |-> 1, Vaddr |-> 4194304]>>
    /\ target.functionAddr = 586016

\* The name is first an OBJECT symbol and then a FUNCTION symbol with
\* another value, and the FUNCTION symbol's value was used.
C15_NonFunctionSkipped ==
    /\ compilePc = "returned"
    /\ compileRes = "ok"
    /\ target.binary \in DOMAIN exes
    /\ Len(AllSymbols) = 2
    /\ ~IsFunc(AllSymbols[1]) /\ IsFunc(AllSymbols[2])
    /\ AllSymbols[1].Name = target.function
    /\ AllSymbols[2].Name = target.function
    /\ AllSymbols[1].Value # AllSymbols[2].Value
    /\ target.functionAddr = SubU64(AllSymbols[2].Value, LoadBase)

\* ------------------------------------------------------------------------
\* More properties of dwarfutil.Tree
\* ------------------------------------------------------------------------

\* No Children list holds a Node made from a terminator.
NoTerminatorChild ==
    \A id \in DOMAIN nodes :
        \A c \in Range(nodes[id].Children) : ~IsTerminator(nodes[c].Entry)

\* C16: after any (balanced) stream Tree has inserted no terminator as a
\* node: no
\* terminator is in any Children list and none is stored in the root's
\* OffsetMap.
C16_TerminatorNeverStored ==
    (treePc = "returned" /\ Balanced(recs)) =>
        /\ NoTerminatorChild
        /\ \A k \in DOMAIN OffsetMap : ~IsTerminator(nodes[OffsetMap[k]].Entry)

\* C17: Tree fails, and returns no tree, on every malformed stream: one with
\* a terminator that has no open record to close, or one that ends while a
\* children-owning record is still open.
C17_MalformedStreamFails ==
    treePc = "returned" => Balanced(recs)

\* ------------------------------------------------------------------------
\* More properties of inspect.findType
\* ------------------------------------------------------------------------

\* C18: findType terminates on every type-reference graph in the offset
\* index, one in which anonymous type records refer to each other or to
\* themselves in a cycle included.
C18_FindTypeTerminates == <>(ftPc \in {"done", "panic"})

\* findType is called on a record it has already been called on.
C18_RecordRevisited == ftDepth > Cardinality(DOMAIN nodes) + 1

\* ------------------------------------------------------------------------
\* More properties of traceAction
\* ------------------------------------------------------------------------

\* A signal has reached the process since signal.Notify.
SignalTaken == sigChan = 1 \/ stopClosed

\* The closer goroutine has closed the pipe.
ClosedByCloser == \E k \in CallsOf("Close") : calls[k].by = "closer"

\* C19: while traceAction is blocked in the copy from the pipe, an interrupt
\* or SIGTERM leads, in every interleaving of the three goroutines, to
\* traceAction returning with its teardown done; and the copy is unblocked
\* only by a goroutine other than the reader closing the pipe.
C19_SignalUnblocksCopy ==
    /\ (taPc = "copy" /\ SignalTaken) ~>
           (taPc = "returned" /\ pipe = "closed" /\ defers = <<>>
               /\ ReleasedInReverse)
    /\ []((taPc = "copy" /\ pipe = "closed") => ClosedByCloser)

\* A signal arrived during the copy, the closer closed the pipe, and
\* traceAction returned after disabling and removing both probes.
C19_Witness ==
    /\ taPc = "returned"
    /\ signals = 1
    /\ Len(targets) = 2
    /\ ClosedByCloser
    /\ closerG = "done"
    /\ TargetsOf("DisableUprobe") = <<2, 1>>
    /\ TargetsOf("RemoveUprobeEvent") = <<2, 1>>
    /\ Min(CallsOf("Close")) < Min(CallsOf("DisableUprobe"))

\* C20: with --dry set traceAction makes no call on the tracing collaborator
\* on any path: no AddUprobeEvent, EnableUprobe, DisableUprobe,
\* RemoveUprobeEvent or TracePipe.
C20_DryRunMakesNoCall ==
    dryRun => calls = <<>>

====
